---- MODULE Spec2Model ----
(***************************************************************************)
(* Model of the workflow engine and its versioned persistence:             *)
(*   - VersionControl           (src/version_control.py)                   *)
(*   - RuleEngine, WorkflowOrchestrator.run   (src/uygulama.py)            *)
(*   - SessionManager           (src/session_manager.py)                   *)
(*   - is_akisi_motoru, durum_yonetimi        (src/uretim_scripti.py)      *)
(*   - ProfileManager           (src/uygulama.py)                          *)
(*   - KnowledgeManager         (src/knowledge_manager.py)                 *)
(* Each component has its own specifications (SpecVC, SpecVC2, SpecOrch,   *)
(* SpecRule, SpecEngine, SpecEngineLive, SpecResume, SpecProfile,          *)
(* SpecGuard, SpecKM, SpecInsight); the variables of the other components  *)
(* stay unchanged.                                                         *)
(***************************************************************************)
EXTENDS Integers, Sequences, FiniteSets, TLC

\* ------------------------------------------------------------------------
\* Bounds
\* ------------------------------------------------------------------------
MaxSaves == 3

\* ========================================================================
\* PART 1 - VersionControl (src/version_control.py)
\* ========================================================================

\* File names and file contents are sequences of string tokens.  A letter, an
\* underscore, a decimal digit, a hash, an extension are one token each.
DigitTok == <<"0", "1", "2", "3", "4", "5", "6", "7", "8", "9">>

IsDigitTok(s) == \E n \in 1..Len(DigitTok) : DigitTok[n] = s

\* str(N) inside the filename template (single decimal digit in this model)
FormatInt(n) == DigitTok[n + 1]

\* int(match.group(1))
ParseInt(s) == (CHOOSE n \in 1..Len(DigitTok) : DigitTok[n] = s) - 1

\* The data values handed to save_new_version.  A dict is given by its items
\* in insertion order (key, value, key, value, ...); a str by its characters.
\* "int" stands for any unsupported type.
DataValues ==
  { [type |-> "dict", items |-> <<"b", "1", "a", "1">>],
    [type |-> "dict", items |-> <<"a", "1", "b", "1">>],
    [type |-> "dict", items |-> <<"a", "2">>],
    [type |-> "str",  items |-> <<"a", "x">>],
    [type |-> "int",  items |-> <<"7">>] }

KeyRank(k) == IF k = "a" THEN 1 ELSE 2

NumItems(d) == Len(d.items) \div 2

\* the permutation of the item indices that puts the keys in sorted order
SortedIdx(d) ==
  CHOOSE p \in [1..NumItems(d) -> 1..NumItems(d)] :
     /\ \A i, j \in 1..NumItems(d) : i # j => p[i] # p[j]
     /\ \A i, j \in 1..NumItems(d) :
          i < j => KeyRank(d.items[2 * p[i] - 1]) <= KeyRank(d.items[2 * p[j] - 1])

RECURSIVE DumpItems(_, _)
DumpItems(d, k) ==
  IF k > NumItems(d) THEN <<>>
  ELSE <<d.items[2 * SortedIdx(d)[k] - 1], d.items[2 * SortedIdx(d)[k]]>>
         \o DumpItems(d, k + 1)

\* json.dumps(data, sort_keys=True).encode() for a dict, data.encode() for str
Serialize(d) ==
  IF d.type = "dict" THEN <<"{">> \o DumpItems(d, 1) \o <<"}">>
  ELSE d.items

Supported(d) == d.type \in {"dict", "str"}

DefaultExt(d) == IF d.type = "dict" THEN <<".json">> ELSE <<>>

\* hashlib.sha256(...).hexdigest()[:12]: collision-free on the payloads used
Sha(bytes) ==
  CASE bytes = <<"{", "a", "1", "b", "1", "}">> -> "h1"
    [] bytes = <<"{", "a", "2", "}">>           -> "h2"
    [] bytes = <<"a", "x">>                     -> "h3"
    [] OTHER                                    -> "h0"

\* base_path after os.path.basename + os.path.splitext
BasePaths ==
  { [name |-> <<"d">>,      ext |-> <<".json">>],
    [name |-> <<"d", "b">>, ext |-> <<".json">>] }

\* self.pattern without its extension: "default_v{N}_{sha12}"
PatternPart(n, sha) == <<"default", "_", "v", FormatInt(n), "_", sha>>

\* f"{base_name}_{filename_part}{ext}"
FinalName(base, ext, n, sha) == base \o <<"_">> \o PatternPart(n, sha) \o ext

IsPrefix(p, s) == Len(p) <= Len(s) /\ SubSeq(s, 1, Len(p)) = p

IsSuffix(p, s) == Len(p) <= Len(s) /\ SubSeq(s, Len(s) - Len(p) + 1, Len(s)) = p

\* position i is a place where "_v(\d+)" matches and ".*?<ext>$" can follow
VersionAt(f, ext, i) ==
  /\ i + 2 <= Len(f)
  /\ f[i] = "_" /\ f[i + 1] = "v" /\ IsDigitTok(f[i + 2])
  /\ Len(f) >= i + 2 + Len(ext)
  /\ IsSuffix(ext, f)

\* re.compile(f"^{base}.*?_v(\d+).*?{ext}$").match(f)
RegexMatches(f, base, ext) ==
  /\ IsPrefix(base, f)
  /\ \E i \in (Len(base) + 1)..Len(f) : VersionAt(f, ext, i)

\* match.group(1): the lazy ".*?" stops at the first place that matches
RegexVersion(f, base, ext) ==
  LET i == CHOOSE k \in (Len(base) + 1)..Len(f) :
             /\ VersionAt(f, ext, k)
             /\ \A m \in (Len(base) + 1)..(k - 1) : ~VersionAt(f, ext, m)
  IN ParseInt(f[i + 2])

SetMax(S) == IF S = {} THEN 0 ELSE CHOOSE m \in S : \A x \in S : x <= m

MaxVersion(dir, base, ext) ==
  SetMax({RegexVersion(f.name, base, ext) :
            f \in {g \in dir : RegexMatches(g.name, base, ext)}})

\* mutant: the "+ 1" is lost when a version already exists
GetNextVersion_NoIncrement(dir, base, ext) ==
  IF MaxVersion(dir, base, ext) = 0 THEN 1 ELSE MaxVersion(dir, base, ext)

\* VersionControl._get_next_version
GetNextVersion(dir, base, ext) == MaxVersion(dir, base, ext) + 1

\* mutant: the file is moved before the write has completed
WriteDone_Early(content, bytes) == TRUE

\* the "with os.fdopen(fd, 'wb')" block has written and closed the temp file
WriteDone(content, bytes) == content = bytes

\* mutant: the rename also replaces a file that differs from the new one in
\* its hash only
MoveInto_OnePerVersion(dir, name, content) ==
  {f \in dir : SubSeq(f.name, 1, Len(f.name) - 2) # SubSeq(name, 1, Len(name) - 2)}
    \cup {[name |-> name, content |-> content]}

\* shutil.move(temp_path, final_filepath): a rename inside base_dir, which
\* replaces a file of the same name
MoveInto(dir, name, content) ==
  {f \in dir : f.name # name} \cup {[name |-> name, content |-> content]}

AllWriters == {"w1", "w2"}

NoCall == [base |-> <<>>, ext |-> <<>>, bytes |-> <<>>, sha |-> "", ver |-> 0,
           final |-> <<>>]

NoTemp == [exists |-> FALSE, content |-> <<>>]

VARIABLES
  writers,      \* the processes that call save_new_version
  ver_dir,      \* files of outputs/fs/ver: set of [name, content]
  tmp_file,     \* per writer: its mkstemp file in outputs/fs/tmp
  tmp_orphans,  \* contents of temp files left behind by crashed writers
  wpc,          \* per writer: position inside save_new_version
  wcall,        \* per writer: the locals of the call in progress
  nsaves,       \* number of save_new_version calls started
  results       \* the dictionaries returned so far, in order of return

vcVars == <<writers, ver_dir, tmp_file, tmp_orphans, wpc, wcall, nsaves, results>>

VCInit(ws) ==
  /\ writers = ws
  /\ ver_dir = {}
  /\ tmp_file = [w \in AllWriters |-> NoTemp]
  /\ tmp_orphans = {}
  /\ wpc = [w \in AllWriters |-> "idle"]
  /\ wcall = [w \in AllWriters |-> NoCall]
  /\ nsaves = 0
  /\ results = <<>>

\* save_new_version, lines 73-85: data of an unsupported type raises TypeError
SaveTypeError(w) ==
  /\ w \in writers /\ wpc[w] = "idle" /\ nsaves < MaxSaves
  /\ \E d \in DataValues : ~Supported(d)
  /\ nsaves' = nsaves + 1
  /\ UNCHANGED <<writers, ver_dir, tmp_file, tmp_orphans, wpc, wcall, results>>

\* save_new_version, lines 73-125: serialize, hash, scan the directory for the
\* next version, build the final name, create the empty temp file
SaveBegin(w) ==
  /\ w \in writers /\ wpc[w] = "idle" /\ nsaves < MaxSaves
  /\ \E bp \in BasePaths, d \in {x \in DataValues : Supported(x)} :
       LET bytes == Serialize(d)
           ext   == IF bp.ext = <<>> THEN DefaultExt(d) ELSE bp.ext
           n     == GetNextVersion(ver_dir, bp.name, ext)
       IN wcall' = [wcall EXCEPT ![w] =
                      [base |-> bp.name, ext |-> ext, bytes |-> bytes,
                       sha |-> Sha(bytes), ver |-> n,
                       final |-> FinalName(bp.name, ext, n, Sha(bytes))]]
  /\ tmp_file' = [tmp_file EXCEPT ![w] = [exists |-> TRUE, content |-> <<>>]]
  /\ wpc' = [wpc EXCEPT ![w] = "write"]
  /\ nsaves' = nsaves + 1
  /\ UNCHANGED <<writers, ver_dir, tmp_orphans, results>>

\* save_new_version, lines 128-129: temp_file.write(serialized_data); the
\* bytes reach the temp file piece by piece
WriteChunk(w) ==
  /\ w \in writers /\ wpc[w] = "write"
  /\ Len(tmp_file[w].content) < Len(wcall[w].bytes)
  /\ tmp_file' = [tmp_file EXCEPT ![w].content =
                    Append(@, wcall[w].bytes[Len(@) + 1])]
  /\ UNCHANGED <<writers, ver_dir, tmp_orphans, wpc, wcall, nsaves, results>>

\* save_new_version, lines 132-146: move the temp file to its final path and
\* return {filepath, version, sha256}
MoveAndReturn(w) ==
  /\ w \in writers /\ wpc[w] = "write"
  /\ WriteDone(tmp_file[w].content, wcall[w].bytes)
  /\ ver_dir' = MoveInto(ver_dir, wcall[w].final, tmp_file[w].content)
  /\ tmp_file' = [tmp_file EXCEPT ![w] = NoTemp]
  /\ results' = Append(results,
                  [base |-> wcall[w].base, ext |-> wcall[w].ext,
                   filepath |-> wcall[w].final, version |-> wcall[w].ver,
                   sha256 |-> wcall[w].sha, bytes |-> wcall[w].bytes])
  /\ wpc' = [wpc EXCEPT ![w] = "idle"]
  /\ wcall' = [wcall EXCEPT ![w] = NoCall]
  /\ UNCHANGED <<writers, tmp_orphans, nsaves>>

\* save_new_version, lines 135-139 and 148-150: the write or the move raises
\* (disk full, directory not writable); the temp file is removed, the
\* exception is re-raised
SaveIOError(w) ==
  /\ w \in writers /\ wpc[w] = "write"
  /\ tmp_file' = [tmp_file EXCEPT ![w] = NoTemp]
  /\ wpc' = [wpc EXCEPT ![w] = "idle"]
  /\ wcall' = [wcall EXCEPT ![w] = NoCall]
  /\ UNCHANGED <<writers, ver_dir, tmp_orphans, nsaves, results>>

\* the process dies between the start of the temp write and the rename; no
\* handler runs, the temp file stays in outputs/fs/tmp
Crash(w) ==
  /\ w \in writers /\ wpc[w] = "write"
  /\ tmp_orphans' = tmp_orphans \cup {tmp_file[w].content}
  /\ tmp_file' = [tmp_file EXCEPT ![w] = NoTemp]
  /\ wpc' = [wpc EXCEPT ![w] = "idle"]
  /\ wcall' = [wcall EXCEPT ![w] = NoCall]
  /\ UNCHANGED <<writers, ver_dir, nsaves, results>>


\* ========================================================================
\* PART 2 - RuleEngine (src/uygulama.py, src/project_core/uygulama.py)
\* ========================================================================

\* Python values: a type tag and a number that identifies the value inside
\* its type (for int and str the order of the numbers is the order of the
\* values).
None == [t |-> "none", n |-> 0]

PyInt(k) == [t |-> "int", n |-> k]

PyStr(k) == [t |-> "str", n |-> k]

PyDict(k) == [t |-> "dict", n |-> k]

\* the "no such key" marker of a dict in the model
Absent == [t |-> "absent", n |-> 0]

\* dict.get(key): None for a key that is not there
DictGet(d, key) ==
  IF key \in DOMAIN d /\ d[key] # Absent THEN d[key] ELSE None

\* a < b and a > b are defined between two ints or two strs only
Orderable(a, b) == a.t = b.t /\ a.t \in {"int", "str"}

\* self.operators[op_name](actual, expected): "true", "false" or "TypeError"
ApplyOperator(op, actual, expected) ==
  CASE op = "equal" ->
         IF actual = expected THEN "true" ELSE "false"
    [] op = "greaterThan" ->
         IF ~Orderable(actual, expected) THEN "TypeError"
         ELSE IF actual.n > expected.n THEN "true" ELSE "false"
    [] op = "lessThan" ->
         IF ~Orderable(actual, expected) THEN "TypeError"
         ELSE IF actual.n < expected.n THEN "true" ELSE "false"

Operators == {"equal", "greaterThan", "lessThan"}

\* one pass of the loop body of evaluate (lines 58-65): does the condition let
\* the loop go on ("true"), end it with False ("false")
ConditionHolds(c, facts) ==
  IF c.operator \notin Operators THEN "false"
  ELSE LET r == ApplyOperator(c.operator, DictGet(facts, c.fact), c.value)
       IN IF r = "TypeError" THEN "false" ELSE r

RECURSIVE AllConditions(_, _, _)
AllConditions(conds, facts, k) ==
  IF k > Len(conds) THEN "true"
  ELSE IF ConditionHolds(conds[k], facts) = "true"
       THEN AllConditions(conds, facts, k + 1)
       ELSE ConditionHolds(conds[k], facts)

\* RuleEngine.evaluate; rulesets maps a name to its list logic.conditions.all
Evaluate(rulesets, ruleset_name, facts) ==
  IF ruleset_name = "" THEN "false"
  ELSE IF ruleset_name \notin DOMAIN rulesets THEN "false"
  ELSE IF rulesets[ruleset_name] = <<>> THEN "true"
  ELSE AllConditions(rulesets[ruleset_name], facts, 1)

\* --- inputs of the specification that applies evaluate to drawn inputs -----
FactNames == {"x", "y"}

RuleValues == {None, PyInt(1), PyInt(2), PyStr(1), PyDict(1)}

RuleConditions ==
  [fact : FactNames, operator : Operators \cup {"contains"}, value : RuleValues]

\* the facts: "x" is absent or has a value, "y" is absent
RuleFacts == {[f \in {"x"} |-> v] : v \in RuleValues \cup {Absent}}

MaxConds == 2

VARIABLES
  re_conds,     \* the conditions of the ruleset "R" under evaluation
  re_facts,     \* the facts handed to evaluate
  re_result     \* what evaluate returned ("unset" before the call)

reVars == <<re_conds, re_facts, re_result>>

REInitIdle ==
  /\ re_conds = <<>>
  /\ re_facts = [f \in {"x"} |-> Absent]
  /\ re_result = "unset"

REInitDrawn ==
  /\ re_conds \in UNION {[1..k -> RuleConditions] : k \in 0..MaxConds}
  /\ re_facts \in RuleFacts
  /\ re_result = "unset"

\* rule_engine.evaluate("R", facts)
EvaluateCall ==
  /\ re_result = "unset"
  /\ re_result' = Evaluate([r \in {"R"} |-> re_conds], "R", re_facts)
  /\ UNCHANGED <<re_conds, re_facts>>

\* rule_engine.evaluate of a name that is not in rule_definitions.json
EvaluateUnknown ==
  /\ re_result = "unset"
  /\ re_result' = Evaluate([r \in {"R"} |-> re_conds], "Ghost", re_facts)
  /\ UNCHANGED <<re_conds, re_facts>>


\* ========================================================================
\* PART 3 - SessionManager and WorkflowOrchestrator.run
\*          (src/session_manager.py, src/uygulama.py)
\* ========================================================================

MaxRuns == 2

\* session policy max_updates (orchestrator_policy.json), kept small
MaxUpdates == 2

\* rule_definitions.json of the model
OrchRulesets ==
  [r \in {"AlwaysRun", "K1IsOne"} |->
     IF r = "AlwaysRun" THEN <<>>
     ELSE <<[fact |-> "k1", operator |-> "equal", value |-> PyInt(1)]>>]

\* data_contracts.json of the model: one contract, which wants an int
OrchContracts == {"C_int"}

\* validate_data_contract: an unknown contract name is a failed validation
ValidateDataContract(contract_name, output) ==
  IF contract_name \notin OrchContracts THEN FALSE ELSE output.t = "int"

CtxKeys == {"k1", "k2", "k3", "hx"}

\* what a handler can return
OutValues == {PyInt(1), PyInt(2), PyStr(1)}

\* a step of the workflow config: rs.ruleset_name ("" when not given), module
\* ("nokey": the step has no "module" entry), o.contract and o.context_key
\* ("" when not given)
StepLoad ==
  [id |-> "load", ruleset |-> "AlwaysRun", module |-> "m.py",
   contract |-> "", context_key |-> "k1"]

StepIngest ==
  [id |-> "ingest", ruleset |-> "K1IsOne", module |-> "m.py",
   contract |-> "C_int", context_key |-> "k2"]

StepGhost ==
  [id |-> "ghost", ruleset |-> "Ghost", module |-> "m.py",
   contract |-> "", context_key |-> "k3"]

StepPlain ==
  [id |-> "plain", ruleset |-> "", module |-> "m.py",
   contract |-> "Nowhere", context_key |-> ""]

StepNoModule ==
  [id |-> "broken", ruleset |-> "", module |-> "nokey",
   contract |-> "", context_key |-> "k1"]

\* the argument of run(): kind "invalid" is neither str nor dict, "unloadable"
\* a path that load_json cannot read or an empty dict, "schema" a config the
\* workflow schema rejects, "valid" a config with the given steps
Configs ==
  { [kind |-> "invalid",    steps |-> <<>>],
    [kind |-> "unloadable", steps |-> <<>>],
    [kind |-> "schema",     steps |-> <<>>],
    [kind |-> "valid",      steps |-> <<StepLoad, StepIngest, StepGhost>>],
    [kind |-> "valid",      steps |-> <<StepGhost, StepPlain, StepNoModule>>] }

NoConfig == [kind |-> "none", steps |-> <<>>]

Threads == {"t1", "t2"}

\* mutant: the timeout is not looked at
CheckStatus_NoTimeout(elapsed_over, counter) ==
  IF counter > MaxUpdates THEN "MAX_UPDATES_REACHED" ELSE "STATUS_OK"

\* SessionManager.check_status
CheckStatus(elapsed_over, counter) ==
  IF elapsed_over THEN "TIMEOUT_REACHED"
  ELSE IF counter > MaxUpdates THEN "MAX_UPDATES_REACHED"
  ELSE "STATUS_OK"

\* mutant: an exception leaves run() without the reset of the flag
FinallyState_NotOnException(exit) ==
  IF exit = "exception" THEN "WORKING" ELSE "IDLE"

\* the finally block of run() (lines 218-220), whatever way the body is left
FinallyState(exit) == "IDLE"

\* mutant: a step is gated only by a ruleset that rule_definitions.json has
RuleGatePasses_FailOpen(ruleset_name, ctx) ==
  \/ ruleset_name = ""
  \/ ruleset_name \notin DOMAIN OrchRulesets
  \/ Evaluate(OrchRulesets, ruleset_name, ctx) = "true"

\* lines 182-183: the step goes on when it names no ruleset or evaluate is true
RuleGatePasses(ruleset_name, ctx) ==
  ruleset_name = "" \/ Evaluate(OrchRulesets, ruleset_name, ctx) = "true"

\* mutant: the update of a completed step is not counted
LogUpdate_Lost(counter) == counter

\* SessionManager.log_update
LogUpdate(counter) == counter + 1

NoEpisode == [calls |-> 0, entered |-> 0, rejected |-> 0, resets |-> 0]

VARIABLES
  state,            \* self.state: "IDLE" or "WORKING"
  context,          \* self.context
  update_counter,   \* self.session.update_counter
  elapsed_over,     \* time.time() - start_time > timeout_seconds
  stop_on_error,    \* policy execution.stop_on_error
  stop_on_contract, \* policy execution.stop_on_contract_violation
  tpc,              \* per thread: position inside run()
  tcfg,             \* per thread: the config of its run() call
  tidx,             \* per thread: index of the current step (1-based)
  nruns,            \* number of run() calls made
  last_exit,        \* how the run() call that ended last did end
  loaded,           \* ids of the steps whose handler module was loaded
  invoked,          \* ids of the steps whose handler was invoked
  episode,          \* the calls that overlap in time: counts since the last
                    \* moment at which no call was in progress
  completed         \* number of steps that ran to the end of the loop body
                    \* (line 217) since the orchestrator was constructed

orchVars == <<state, context, update_counter, elapsed_over, stop_on_error,
              stop_on_contract, tpc, tcfg, tidx, nruns, last_exit, loaded,
              invoked, episode, completed>>

OrchInit ==
  /\ state = "IDLE"
  /\ context = [k \in CtxKeys |-> Absent]
  /\ update_counter = 0
  /\ elapsed_over = FALSE
  /\ stop_on_error \in BOOLEAN
  /\ stop_on_contract \in BOOLEAN
  /\ tpc = [t \in Threads |-> "idle"]
  /\ tcfg = [t \in Threads |-> NoConfig]
  /\ tidx = [t \in Threads |-> 0]
  /\ nruns = 0
  /\ last_exit = "none"
  /\ loaded = {}
  /\ invoked = {}
  /\ episode = NoEpisode
  /\ completed = 0

InFlight == {t \in Threads : tpc[t] # "idle"}

\* the body of run() is left by thread t in the way "exit": the finally block
\* runs and the call returns (or the exception goes on to the caller)
Leave(t, exit) ==
  /\ state' = FinallyState(exit)
  /\ tpc' = [tpc EXCEPT ![t] = "idle"]
  /\ tcfg' = [tcfg EXCEPT ![t] = NoConfig]
  /\ tidx' = [tidx EXCEPT ![t] = 0]
  /\ last_exit' = exit
  /\ episode' = [episode EXCEPT !.resets =
                   IF state = "WORKING" /\ FinallyState(exit) = "IDLE"
                   THEN @ + 1 ELSE @]

\* the loop goes on with the next step
Continue(t) ==
  /\ tidx' = [tidx EXCEPT ![t] = @ + 1]
  /\ UNCHANGED <<state, tpc, tcfg, last_exit, episode>>

\* time passes the session timeout
TimePasses ==
  /\ ~elapsed_over
  /\ elapsed_over' = TRUE
  /\ UNCHANGED <<state, context, update_counter, stop_on_error,
                 stop_on_contract, tpc, tcfg, tidx, nruns, last_exit, loaded,
                 invoked, episode, completed>>

\* run(), lines 151-153: the flag is read as WORKING, the call returns
RunRejected(t) ==
  /\ tpc[t] = "idle" /\ nruns < MaxRuns
  /\ state = "WORKING"
  /\ nruns' = nruns + 1
  /\ last_exit' = "busy"
  /\ episode' = IF InFlight = {}
                THEN [NoEpisode EXCEPT !.calls = 1, !.rejected = 1]
                ELSE [episode EXCEPT !.calls = @ + 1, !.rejected = @ + 1]
  /\ UNCHANGED <<state, context, update_counter, elapsed_over, stop_on_error,
                 stop_on_contract, tpc, tcfg, tidx, loaded, invoked, completed>>

\* run(), line 151: the flag is read as not WORKING
RunCheckPassed(t) ==
  /\ tpc[t] = "idle" /\ nruns < MaxRuns
  /\ state # "WORKING"
  /\ \E c \in Configs : tcfg' = [tcfg EXCEPT ![t] = c]
  /\ tpc' = [tpc EXCEPT ![t] = "set"]
  /\ nruns' = nruns + 1
  /\ episode' = IF InFlight = {}
                THEN [NoEpisode EXCEPT !.calls = 1, !.entered = 1]
                ELSE [episode EXCEPT !.calls = @ + 1, !.entered = @ + 1]
  /\ UNCHANGED <<state, context, update_counter, elapsed_over, stop_on_error,
                 stop_on_contract, tidx, last_exit, loaded, invoked, completed>>

\* run(), line 155: self.state = "WORKING"
RunSetWorking(t) ==
  /\ tpc[t] = "set"
  /\ state' = "WORKING"
  /\ tpc' = [tpc EXCEPT ![t] = "config"]
  /\ UNCHANGED <<context, update_counter, elapsed_over, stop_on_error,
                 stop_on_contract, tcfg, tidx, nruns, last_exit, loaded,
                 invoked, episode, completed>>

\* run(), lines 156-172: the config is loaded and checked against the schema
RunLoadConfig(t) ==
  /\ tpc[t] = "config"
  /\ IF tcfg[t].kind = "valid"
     THEN /\ tpc' = [tpc EXCEPT ![t] = "step"]
          /\ tidx' = [tidx EXCEPT ![t] = 1]
          /\ UNCHANGED <<state, tcfg, last_exit, episode>>
     ELSE Leave(t, tcfg[t].kind)
  /\ UNCHANGED <<context, update_counter, elapsed_over, stop_on_error,
                 stop_on_contract, nruns, loaded, invoked, completed>>

\* run(), lines 173-192: end of the loop, session check, rule gate, loading
\* of the handler module (load_ok: whether load_module returns an instance)
StepBegin(t) ==
  /\ tpc[t] = "step"
  /\ \E load_ok \in BOOLEAN :
       LET steps == tcfg[t].steps
           step  == steps[tidx[t]]
       IN IF tidx[t] > Len(steps)
          THEN Leave(t, "completed") /\ UNCHANGED loaded
          ELSE IF CheckStatus(elapsed_over, update_counter) # "STATUS_OK"
          THEN Leave(t, "session") /\ UNCHANGED loaded
          ELSE IF ~RuleGatePasses(step.ruleset, context)
          THEN Continue(t) /\ UNCHANGED loaded
          ELSE IF step.module = "nokey"
          THEN Leave(t, "exception") /\ UNCHANGED loaded
          ELSE IF ~load_ok
          THEN /\ IF stop_on_error THEN Leave(t, "loadfail") ELSE Continue(t)
               /\ UNCHANGED loaded
          ELSE /\ tpc' = [tpc EXCEPT ![t] = "exec"]
               /\ loaded' = loaded \cup {step.id}
               /\ UNCHANGED <<state, tcfg, tidx, last_exit, episode>>
  /\ UNCHANGED <<context, update_counter, elapsed_over, stop_on_error,
                 stop_on_contract, nruns, invoked, completed>>

\* the context after the handler ran: the handler is handed self.context
\* itself and may have written to it (writes: whether it did)
AfterHandler(ctx, writes) ==
  IF writes THEN [ctx EXCEPT !["hx"] = PyInt(1)] ELSE ctx

\* run(), lines 194-217: the handler runs (raises: it throws; out: what it
\* returns), the output is validated, merged, and the update is logged
StepExec(t) ==
  /\ tpc[t] = "exec"
  /\ \E raises \in BOOLEAN, writes \in BOOLEAN, out \in OutValues :
       LET step == tcfg[t].steps[tidx[t]]
           ctx1 == AfterHandler(context, writes)
       IN /\ invoked' = invoked \cup {step.id}
          /\ IF raises
             THEN /\ context' = ctx1
                  /\ UNCHANGED <<update_counter, completed>>
                  /\ IF stop_on_error
                     THEN Leave(t, "fault")
                     ELSE /\ tidx' = [tidx EXCEPT ![t] = @ + 1]
                          /\ tpc' = [tpc EXCEPT ![t] = "step"]
                          /\ UNCHANGED <<state, tcfg, last_exit, episode>>
             ELSE IF step.contract # "" /\ ~ValidateDataContract(step.contract, out)
             THEN /\ context' = ctx1
                  /\ UNCHANGED <<update_counter, completed>>
                  /\ IF stop_on_contract
                     THEN Leave(t, "contract")
                     ELSE /\ tidx' = [tidx EXCEPT ![t] = @ + 1]
                          /\ tpc' = [tpc EXCEPT ![t] = "step"]
                          /\ UNCHANGED <<state, tcfg, last_exit, episode>>
             ELSE /\ context' = IF step.context_key # ""
                                THEN [ctx1 EXCEPT ![step.context_key] = out]
                                ELSE ctx1
                  /\ update_counter' = LogUpdate(update_counter)
                  /\ completed' = completed + 1
                  /\ tidx' = [tidx EXCEPT ![t] = @ + 1]
                  /\ tpc' = [tpc EXCEPT ![t] = "step"]
                  /\ UNCHANGED <<state, tcfg, last_exit, episode>>
  /\ UNCHANGED <<elapsed_over, stop_on_error, stop_on_contract, nruns, loaded>>


\* ========================================================================
\* PART 4 - is_akisi_motoru and durum_yonetimi (src/uretim_scripti.py)
\* ========================================================================

\* cap on the number of loop iterations of one model run
MaxIter == 4

MaxEngRuns == 1

\* run.steps_list_snapshot: "3" waits for a csv file, "10" and "12" ask the
\* language model; "12" is the step whose output ciktiyi_dogrula checks
EngSteps == <<"3", "10", "12">>

EngIds == {EngSteps[k] : k \in 1..Len(EngSteps)}

\* adim_idler.index(id): position of the first step with that id
EngIndex(id) ==
  CHOOSE k \in 1..Len(EngSteps) :
     EngSteps[k] = id /\ \A m \in 1..(k - 1) : EngSteps[m] # id

EngKeys == {"benzer_kelimeler_df", "adim_10_sonuc", "adim_12_sonuc",
            "maliyet_raporu"}

ResultKey(id) == IF id = "10" THEN "adim_10_sonuc" ELSE "adim_12_sonuc"

\* a value of uretim_verileri is given by its serialized size; 0: no such key
NoData == [k \in EngKeys |-> 0]

NoCost == [adimlar |-> {}, n |-> 0]

DataFrameSize == 2

TextSizes == {1, 3}

\* on_kosullari_kontrol_et with the run.s.<id>.precon of the model: step "10"
\* has the rule {JPath: "$.benzer_kelimeler_df", expr: "exists"}, the other
\* steps have no precon
OnKosullariKontrolEt(id, data) ==
  IF id = "10" THEN data["benzer_kelimeler_df"] # 0 ELSE TRUE

\* ciktiyi_dogrula: only step '12' (which has vlds rules) is checked;
\* well_formed: the answer is a list of 13 tags
CiktiyiDogrula(id, well_formed) == id # "12" \/ well_formed

\* the on_error object of a step: pol ("" when not given) and fallback_next
\* ("" when not given); one policy per step
OnErrors ==
  { [pol |-> "", fb |-> ""], [pol |-> "stop", fb |-> ""],
    [pol |-> "fail-soft", fb |-> ""] }
  \cup {[pol |-> "", fb |-> x] : x \in EngIds \cup {"ghost"}}

\* where the loop goes on: pc "loop" at step i, or pc "done" after a break
Goto(k) == [pc |-> "loop", i |-> k]

Break(k) == [pc |-> "done", i |-> k]

\* mutant: the fallback resumes behind the named step
Fallback_After(fb, i) ==
  IF fb \in EngIds THEN Goto(EngIndex(fb) + 1) ELSE Break(i)

\* lines 392-402 and 419-429: i = adim_idler.index(fallback), or break when
\* the id is not in the list
Fallback(fb, i) ==
  IF fb \in EngIds THEN Goto(EngIndex(fb)) ELSE Break(i)

\* mutant: an unknown fallback id is passed over and the loop goes on
ResolveFault_SkipUnknown(oe, stop, i) ==
  IF oe.pol = "fail-soft" THEN Goto(i + 1)
  ELSE IF oe.fb # "" THEN (IF oe.fb \in EngIds THEN Fallback(oe.fb, i) ELSE Goto(i + 1))
  ELSE IF stop THEN Break(i)
  ELSE Goto(i)

\* lines 411-436: the except branch of the loop body
ResolveFault(oe, stop, i) ==
  IF oe.pol = "fail-soft" THEN Goto(i + 1)
  ELSE IF oe.fb # "" THEN Fallback(oe.fb, i)
  ELSE IF stop THEN Break(i)
  ELSE Goto(i)

\* lines 383-405: the output did not pass ciktiyi_dogrula
ResolveInvalid(oe, i) ==
  IF oe.pol = "fail-soft" THEN Goto(i + 1)
  ELSE IF oe.fb # "" THEN Fallback(oe.fb, i)
  ELSE Break(i)

\* len(json.dumps({"last_completed_step_id": ..., "uretim_verileri": ...}))
RunStateSize(data, cost) ==
  4 + data["benzer_kelimeler_df"] + data["adim_10_sonuc"] + data["adim_12_sonuc"]
    + (IF data["maliyet_raporu"] # 0 THEN 1 + cost.n + Cardinality(cost.adimlar) ELSE 0)

\* the run-state file: form is "object" for a JSON object, "garbled" for a
\* content json.load rejects with JSONDecodeError, "other" for a file whose
\* open, decoding or state.get raises another exception (no read permission,
\* bytes that are not UTF-8, a JSON value that is not an object); last is ""
\* when the object has no last_completed_step_id
NoFile ==
  [exists |-> FALSE, form |-> "object", last |-> "", data |-> NoData,
   cost |-> NoCost]

\* pl.security.size_shrink_guard: enabled is "the object is there and not
\* empty"; threshold_percent holds a ratio (0.005 stands for 0.5 %), kept as
\* the fraction num/den; on_violation is "" when the key is not given
GuardBlock ==
  [enabled |-> TRUE, threshold_bytes |-> 1,
   threshold_percent |-> [num |-> 1, den |-> 4],
   on_violation |-> "block_and_request_approval"]

\* lines 122-128: is_over_byte_threshold or is_over_percent_threshold, with
\* shrink_ratio_actual = size_diff / old_size compared to the ratio
OverThreshold(guard, old_size, new_size) ==
  \/ old_size - new_size > guard.threshold_bytes
  \/ (old_size - new_size) * guard.threshold_percent.den
       > guard.threshold_percent.num * old_size

\* lines 116-138: the shrink guard refuses the write
ShrinkGuardBlocks(guard, file, new_size) ==
  /\ guard.enabled /\ file.exists
  /\ RunStateSize(file.data, file.cost) > 0
  /\ OverThreshold(guard, RunStateSize(file.data, file.cost), new_size)
  /\ guard.on_violation = "block_and_request_approval"

\* durum_yonetimi(mod='yaz'): the run-state file after the call (the open and
\* the write of the file are taken to work)
DurumYaz(guard, file, adim_id, data, cost) ==
  IF ShrinkGuardBlocks(guard, file, RunStateSize(data, cost)) THEN file
  ELSE [exists |-> TRUE, form |-> "object", last |-> adim_id, data |-> data,
        cost |-> cost]

VARIABLES
  eng_pc,          \* "start", "loop", "done" or "raised"
  eng_i,           \* the loop index i (1-based)
  uretim_verileri, \* the production data
  maliyet_raporu,  \* the cost report
  run_state,       \* the run-state file
  on_error,        \* run.s.<id>.on_error of every step
  stop_err,        \* r.stop_err
  guard_rules,     \* pl.security.size_shrink_guard
  csv_present,     \* the csv file step "3" waits for is in the folder
  eng_iter,        \* loop iterations made in this model run
  eng_runs,        \* calls of is_akisi_motoru
  eng_last,        \* the last loop iteration: its step and how it ended
  eng_pending      \* the fallback target of a raised fault that no executed
                   \* step has followed yet

engVars == <<eng_pc, eng_i, uretim_verileri, maliyet_raporu, run_state,
             on_error, stop_err, guard_rules, csv_present, eng_iter, eng_runs,
             eng_last, eng_pending>>

NoEvent == [step |-> "", outcome |-> "none"]

EngInitIdle ==
  /\ eng_pc = "start"
  /\ eng_i = 0
  /\ uretim_verileri = NoData
  /\ maliyet_raporu = NoCost
  /\ run_state = NoFile
  /\ on_error = [id \in EngIds |-> [pol |-> "", fb |-> ""]]
  /\ stop_err = TRUE
  /\ guard_rules = GuardBlock
  /\ csv_present = FALSE
  /\ eng_iter = 0
  /\ eng_runs = 0
  /\ eng_last = NoEvent
  /\ eng_pending = ""

EngInitDrawn ==
  /\ eng_pc = "start"
  /\ eng_i = 0
  /\ uretim_verileri = NoData
  /\ maliyet_raporu = NoCost
  /\ run_state = NoFile
  /\ on_error \in [EngIds -> OnErrors]
  /\ stop_err \in BOOLEAN
  /\ guard_rules = GuardBlock
  /\ csv_present = FALSE
  /\ eng_iter = 0
  /\ eng_runs = 0
  /\ eng_last = NoEvent
  /\ eng_pending = ""

\* the user copies the csv file into the production folder
CopyCsv ==
  /\ ~csv_present
  /\ csv_present' = TRUE
  /\ UNCHANGED <<eng_pc, eng_i, uretim_verileri, maliyet_raporu, run_state,
                 on_error, stop_err, guard_rules, eng_iter, eng_runs, eng_last,
                 eng_pending>>

\* durum_yonetimi(mod='oku'), lines 84-102: the file gives an id and data
Readable(file) == file.exists /\ file.form = "object"

\* is_akisi_motoru, lines 289-310: read the run-state file and find the step
\* to begin with; an exception that line 99 does not catch leaves the engine
EngStart ==
  /\ eng_pc \in {"start", "done", "raised"} /\ eng_runs < MaxEngRuns
  /\ eng_runs' = eng_runs + 1
  /\ IF run_state.exists /\ run_state.form = "other"
     THEN /\ eng_pc' = "raised"
          /\ UNCHANGED <<eng_i, uretim_verileri, maliyet_raporu>>
     ELSE /\ eng_pc' = "loop"
          /\ IF Readable(run_state) /\ run_state.last \in EngIds
             THEN /\ eng_i' = EngIndex(run_state.last) + 1
                  /\ uretim_verileri' = run_state.data
                  /\ maliyet_raporu' = IF run_state.data["maliyet_raporu"] # 0
                                       THEN run_state.cost ELSE NoCost
             ELSE IF Readable(run_state) /\ run_state.last = ""
             THEN /\ eng_i' = 1
                  /\ uretim_verileri' = run_state.data
                  /\ maliyet_raporu' = IF run_state.data["maliyet_raporu"] # 0
                                       THEN run_state.cost ELSE NoCost
             ELSE /\ eng_i' = 1
                  /\ uretim_verileri' = NoData
                  /\ maliyet_raporu' = NoCost
  /\ eng_last' = NoEvent
  /\ eng_pending' = ""
  /\ UNCHANGED <<run_state, on_error, stop_err, guard_rules, csv_present, eng_iter>>

\* line 311: the while condition is false, the loop is left
EngLoopEnd ==
  /\ eng_pc = "loop" /\ eng_i > Len(EngSteps)
  /\ eng_pc' = "done"
  /\ UNCHANGED <<eng_i, uretim_verileri, maliyet_raporu, run_state, on_error,
                 stop_err, guard_rules, csv_present, eng_iter, eng_runs,
                 eng_last, eng_pending>>

\* what one loop iteration leaves behind, put together
EngOutcome(id, outcome, where, data, cost, file) ==
  /\ eng_pc' = where.pc
  /\ eng_i' = where.i
  /\ uretim_verileri' = data
  /\ maliyet_raporu' = cost
  /\ run_state' = file
  /\ eng_last' = [step |-> id, outcome |-> outcome]
  /\ eng_pending' =
       IF outcome = "fault"
       THEN (IF on_error[id].fb \in EngIds THEN on_error[id].fb ELSE "")
       ELSE IF outcome = "skipped" THEN eng_pending
       ELSE ""

\* lines 408-410: the step is done, the run state is written, i += 1
EngSuccess(id, data, cost) ==
  EngOutcome(id, "ok", Goto(eng_i + 1), data, cost,
             DurumYaz(guard_rules, run_state, id, data, cost))

\* lines 312-436: one iteration of the while loop (the token total of the
\* cost report is counted up to MaxIter)
EngIterate ==
  /\ eng_pc = "loop" /\ eng_i <= Len(EngSteps)
  /\ LET id == EngSteps[eng_i]
         oe == on_error[id]
     IN IF ~OnKosullariKontrolEt(id, uretim_verileri)
        THEN EngOutcome(id, "skipped", Goto(eng_i + 1), uretim_verileri,
                        maliyet_raporu, run_state)
        ELSE IF id = "3"
        THEN \* lines 339-358: wait for the file, then csv_on_isleme_yap
             /\ csv_present
             /\ \E raises \in BOOLEAN :
                  IF raises
                  THEN EngOutcome(id, "fault", ResolveFault(oe, stop_err, eng_i),
                                  uretim_verileri, maliyet_raporu, run_state)
                  ELSE EngSuccess(id,
                         [uretim_verileri EXCEPT !["benzer_kelimeler_df"] = DataFrameSize],
                         maliyet_raporu)
        ELSE \* lines 360-407: ask the model, meter the call, check the answer
             \E api_raises \in BOOLEAN,
                metered \in (IF maliyet_raporu.n < MaxIter THEN BOOLEAN ELSE {FALSE}),
                text_raises \in BOOLEAN, well_formed \in BOOLEAN,
                text \in TextSizes :
               LET cost1 == IF metered
                            THEN [adimlar |-> maliyet_raporu.adimlar \cup {id},
                                  n |-> maliyet_raporu.n + 1]
                            ELSE maliyet_raporu
                   data1 == IF metered
                            THEN [uretim_verileri EXCEPT !["maliyet_raporu"] = 1]
                            ELSE uretim_verileri
               IN IF api_raises
                  THEN EngOutcome(id, "fault", ResolveFault(oe, stop_err, eng_i),
                                  uretim_verileri, maliyet_raporu, run_state)
                  ELSE IF text_raises
                  THEN EngOutcome(id, "fault", ResolveFault(oe, stop_err, eng_i),
                                  data1, cost1, run_state)
                  ELSE IF ~CiktiyiDogrula(id, well_formed)
                  THEN EngOutcome(id, "invalid", ResolveInvalid(oe, eng_i),
                                  data1, cost1, run_state)
                  ELSE EngSuccess(id, [data1 EXCEPT ![ResultKey(id)] = text],
                                  cost1)
  /\ UNCHANGED <<on_error, stop_err, guard_rules, csv_present, eng_runs>>

\* one iteration, counted; at most MaxIter iterations are made
EngStep ==
  /\ eng_iter < MaxIter
  /\ eng_iter' = eng_iter + 1
  /\ EngIterate

\* one iteration of a run that is not cut off: the iterations are counted
\* modulo 2, which tells an iteration from the one before it
EngStepLive ==
  /\ eng_iter' = (eng_iter + 1) % 2
  /\ EngIterate

\* ========================================================================
\* PART 5 - ProfileManager (src/uygulama.py)
\* ========================================================================

\* a profile of csv_profiles.json is given by the value of each of its keys;
\* Missing: the profile does not have the key
Missing == "<missing>"

ProfKeys == {"inherits", "a", "b"}

ProfNames == {"base", "child"}

\* the profiles the model draws from: "inherits" names a stored profile, a
\* profile that is not stored ("ghost"), or is not given
ProfileSet ==
  [inherits : {Missing, "base", "child", "ghost"},
   a : {Missing, "1", "2"},
   b : {Missing, "2", "3"}]

\* the value None that get_merged_profile returns for an unknown name
NoProfile == [found |-> FALSE, fields |-> [k \in ProfKeys |-> Missing]]

\* {**base_profile, **profile}: every key of either dict, the value of the
\* right-hand dict where both have the key
DictMerge(base_profile, profile) ==
  [k \in ProfKeys |-> IF profile[k] # Missing THEN profile[k] ELSE base_profile[k]]

\* ProfileManager.get_merged_profile
GetMergedProfile(profiles, profile_name) ==
  IF profile_name \notin DOMAIN profiles THEN NoProfile
  ELSE LET profile   == profiles[profile_name]
           base_name == profile["inherits"]
       IN IF base_name # Missing /\ base_name \in DOMAIN profiles
          THEN [found |-> TRUE, fields |-> DictMerge(profiles[base_name], profile)]
          ELSE [found |-> TRUE, fields |-> profile]

VARIABLES
  pm_profiles,   \* self.profiles
  pm_name,       \* the profile_name asked for
  pm_result      \* what get_merged_profile returned; called: FALSE before

pmVars == <<pm_profiles, pm_name, pm_result>>

PMInitIdle ==
  /\ pm_profiles = [n \in ProfNames |-> [inherits |-> Missing, a |-> Missing, b |-> Missing]]
  /\ pm_name = "base"
  /\ pm_result = [called |-> FALSE, value |-> NoProfile]

PMInitDrawn ==
  /\ pm_profiles \in [ProfNames -> ProfileSet]
  /\ pm_name \in ProfNames \cup {"ghost"}
  /\ pm_result = [called |-> FALSE, value |-> NoProfile]

\* profile_manager.get_merged_profile(profile_name)
GetMergedProfileCall ==
  /\ ~pm_result.called
  /\ pm_result' = [called |-> TRUE, value |-> GetMergedProfile(pm_profiles, pm_name)]
  /\ UNCHANGED <<pm_profiles, pm_name>>


\* ========================================================================
\* PART 6 - durum_yonetimi(mod='yaz') applied to drawn inputs
\*          (src/uretim_scripti.py)
\* ========================================================================

\* production data of several serialized sizes
GuardData ==
  {d \in [EngKeys -> 0..3] :
     /\ d["benzer_kelimeler_df"] \in {0, DataFrameSize}
     /\ d["adim_10_sonuc"] \in {0} \cup TextSizes
     /\ d["adim_12_sonuc"] \in {0} \cup TextSizes
     /\ d["maliyet_raporu"] = 0}

\* the run-state file before the call: not there, or written by an earlier call
GuardFiles ==
  {NoFile} \cup
  {[exists |-> TRUE, form |-> "object", last |-> "10", data |-> d,
    cost |-> NoCost] : d \in GuardData}

\* the run-state files a run can find: none, a file that is not JSON, a file
\* that cannot be opened or decoded or holds no object, and an object with
\* the id of a step, of no step of the list ("ghost"), or with no id
ResumeFiles ==
  {NoFile}
  \cup {[exists |-> TRUE, form |-> fm, last |-> "", data |-> NoData,
         cost |-> NoCost] : fm \in {"garbled", "other"}}
  \cup {[exists |-> TRUE, form |-> "object", last |-> id, data |-> d,
         cost |-> NoCost] : id \in EngIds \cup {"ghost", ""}, d \in GuardData}

\* the engine before a run, over every run-state file of the set
EngInitResume ==
  /\ eng_pc = "start"
  /\ eng_i = 0
  /\ uretim_verileri = NoData
  /\ maliyet_raporu = NoCost
  /\ run_state \in ResumeFiles
  /\ on_error = [id \in EngIds |-> [pol |-> "", fb |-> ""]]
  /\ stop_err = TRUE
  /\ guard_rules = GuardBlock
  /\ csv_present = FALSE
  /\ eng_iter = 0
  /\ eng_runs = 0
  /\ eng_last = NoEvent
  /\ eng_pending = ""

\* the size_shrink_guard objects of the model: none, or thresholds with an
\* on_violation that blocks, one that only warns, or no on_violation key
GuardConfigs ==
  {[enabled |-> FALSE, threshold_bytes |-> 1,
    threshold_percent |-> [num |-> 1, den |-> 4], on_violation |-> ""]}
  \cup
  {[enabled |-> TRUE, threshold_bytes |-> tb,
    threshold_percent |-> [num |-> 1, den |-> d], on_violation |-> ov] :
      tb \in {1, 3}, d \in {2, 4},
      ov \in {"block_and_request_approval", "warn_only", ""}}

VARIABLES
  yaz_result     \* what durum_yonetimi(mod='yaz') returned ("none" before)

sgVars == <<yaz_result>>

SGInitIdle == yaz_result = "none"

\* the engine variables as durum_yonetimi finds them: a drawn run-state file,
\* drawn production data, a drawn guard object
EngInitGuard ==
  /\ eng_pc = "start"
  /\ eng_i = 0
  /\ uretim_verileri \in GuardData
  /\ maliyet_raporu = NoCost
  /\ run_state \in GuardFiles
  /\ on_error = [id \in EngIds |-> [pol |-> "", fb |-> ""]]
  /\ stop_err = TRUE
  /\ guard_rules \in GuardConfigs
  /\ csv_present = FALSE
  /\ eng_iter = 0
  /\ eng_runs = 0
  /\ eng_last = NoEvent
  /\ eng_pending = ""

\* durum_yonetimi(config, "12", uretim_verileri, mod='yaz'), lines 104-150
DurumYonetimiYaz ==
  /\ yaz_result = "none"
  /\ run_state' = DurumYaz(guard_rules, run_state, "12", uretim_verileri,
                           maliyet_raporu)
  /\ yaz_result' =
       IF ShrinkGuardBlocks(guard_rules, run_state,
                            RunStateSize(uretim_verileri, maliyet_raporu))
       THEN "false" ELSE "true"
  /\ UNCHANGED <<eng_pc, eng_i, uretim_verileri, maliyet_raporu, on_error,
                 stop_err, guard_rules, csv_present, eng_iter, eng_runs,
                 eng_last, eng_pending>>


\* ========================================================================
\* PART 7 - KnowledgeManager over VersionControl.save_with_metadata
\*          (src/knowledge_manager.py, src/version_control.py)
\* ========================================================================

\* cap on the number of KnowledgeManager calls (constructions included)
MaxKmOps == 4

\* base_name and ext of base_path 'kb/knowledge_base.json'
KmBase == <<"knowledge_base">>

KmExt == <<".json">>

\* the versioning pattern "test_v{N}.json" without its extension
PatternTest(n) == <<"test", "_", "v", FormatInt(n)>>

\* final_filename of save_new_version under that pattern
KmFinalName(n) == KmBase \o <<"_">> \o PatternTest(n) \o KmExt

\* os.path.splitext(save_result["filepath"])[0] + ".meta.json"
MetaName(final) == SubSeq(final, 1, Len(final) - 1) \o <<".meta", ".json">>

IsSidecar(name) == IsSuffix(<<".meta", ".json">>, name)

KmStateKeys == {"active_task"}

KmStateValues == {"t1", "t2"}

InsightKeys == {"p", "q"}

InsightValues == {"x"}

EmptySession == [k \in KmStateKeys |-> Missing]

\* self.db: the three sections of the ledger and, in extra, the tokens of
\* every other key the loaded document had
EmptyLedger ==
  [session_state |-> EmptySession, learned_insights |-> <<>>,
   performance_metrics |-> <<>>, extra |-> <<>>]

Ledger(db) == <<db.session_state, db.learned_insights, db.performance_metrics>>

RECURSIVE DumpInsights(_, _)
DumpInsights(li, k) ==
  IF k > Len(li) THEN <<>>
  ELSE <<li[k].key, li[k].value, FormatInt(li[k].timestamp)>> \o DumpInsights(li, k + 1)

\* json.dumps(self.db, sort_keys=True): the document as a token sequence
JsonDumpDb(db) ==
  <<"{", "learned_insights", "[">> \o DumpInsights(db.learned_insights, 1) \o <<"]">>
  \o <<"performance_metrics", "[", "]">>
  \o <<"session_state", "{">>
  \o (IF db.session_state["active_task"] # Missing
      THEN <<"active_task", db.session_state["active_task"]>> ELSE <<>>)
  \o <<"}">>
  \o db.extra
  \o <<"}">>

\* the keys source_file and version of the metadata object (timestamp,
\* sha256, actor and reason are carried by no token of their own)
MetaTokens(n, final) == <<"source_file">> \o final \o <<"version", FormatInt(n)>>

\* json.dump(metadata, f): the sidecar document
JsonDumpMeta(n, final) == <<"{">> \o MetaTokens(n, final) \o <<"}">>

HasToken(c, tok) == \E i \in 1..Len(c) : c[i] = tok

FirstPos(c, tok, from) ==
  CHOOSE i \in from..Len(c) : c[i] = tok /\ \A m \in from..(i - 1) : c[m] # tok

\* the value of "learned_insights" in a parsed document
ParseInsights(c) ==
  LET a     == FirstPos(c, "learned_insights", 1) + 2
      b     == FirstPos(c, "]", a) - 1
      items == SubSeq(c, a, b)
  IN [k \in 1..(Len(items) \div 3) |->
        [key |-> items[3 * k - 2], value |-> items[3 * k - 1],
         timestamp |-> ParseInt(items[3 * k])]]

\* the value of "session_state" in a parsed document
ParseSession(c) ==
  LET a == FirstPos(c, "session_state", 1) + 2
  IN [k \in KmStateKeys |-> IF c[a] = k THEN c[a + 1] ELSE Missing]

\* the keys of a parsed document that are not sections of the ledger
ParseExtra(c) ==
  IF HasToken(c, "source_file")
  THEN SubSeq(c, FirstPos(c, "source_file", 1), Len(c) - 1)
  ELSE <<>>

\* _load_db, lines 62-68: json.load and the three setdefault calls
LoadDoc(c) ==
  [session_state |->
     IF HasToken(c, "session_state") THEN ParseSession(c) ELSE EmptySession,
   learned_insights |->
     IF HasToken(c, "learned_insights") THEN ParseInsights(c) ELSE <<>>,
   performance_metrics |-> <<>>,
   extra |-> ParseExtra(c)]

\* _find_latest_db, lines 38-52: the files the pattern matches (the pattern
\* ends in ".json", which the name of a sidecar does too)
LatestMatches(dir) == {f \in dir : RegexMatches(f.name, KmBase, KmExt)}

\* _find_latest_db: the file returned is the first one of the listing that
\* has the highest version ("version > latest_version"); os.listdir gives the
\* files in any order, so it is any of the files with the highest version
LatestCandidates(dir) ==
  {f \in LatestMatches(dir) :
     \A g \in LatestMatches(dir) :
        RegexVersion(g.name, KmBase, KmExt) <= RegexVersion(f.name, KmBase, KmExt)}

\* the write of the sidecar raised: the primary artifact is taken back
SaveWithMetadata_Rollback(dir, db, meta_ok) ==
  LET n     == GetNextVersion(dir, KmBase, KmExt)
      final == KmFinalName(n)
      dir1  == MoveInto(dir, final, JsonDumpDb(db))
  IN IF meta_ok THEN MoveInto(dir1, MetaName(final), JsonDumpMeta(n, final))
     ELSE dir

\* VersionControl.save_with_metadata for the KnowledgeManager: the new data
\* file, then the sidecar (meta_ok: the write of the sidecar works)
SaveWithMetadata(dir, db, meta_ok) ==
  LET n     == GetNextVersion(dir, KmBase, KmExt)
      final == KmFinalName(n)
      dir1  == MoveInto(dir, final, JsonDumpDb(db))
  IN IF meta_ok THEN MoveInto(dir1, MetaName(final), JsonDumpMeta(n, final))
     ELSE dir1

\* no call of save_with_metadata was made
NoSave ==
  [called |-> FALSE, meta_ok |-> TRUE, filepath |-> <<>>, version |-> 0,
   bytes |-> <<>>]

\* what save_with_metadata returns: the save_result of save_new_version
\* (bytes: the content that its sha256 is the digest of)
SaveResult(dir, db, meta_ok) ==
  [called |-> TRUE, meta_ok |-> meta_ok,
   filepath |-> KmFinalName(GetNextVersion(dir, KmBase, KmExt)),
   version |-> GetNextVersion(dir, KmBase, KmExt),
   bytes |-> JsonDumpDb(db)]

\* the initial structure is never saved
LedgerIsEmpty_Never(db) == FALSE

\* __init__, line 27: both sections are empty
LedgerIsEmpty(db) ==
  db.learned_insights = <<>> /\ db.session_state = EmptySession

\* _find_latest_db and _load_db: the name of the file found and the ledger
\* loaded from it, the fresh ledger when no file is found
LoadDb(dir) ==
  IF LatestCandidates(dir) = {}
  THEN {[name |-> <<>>, db |-> EmptyLedger]}
  ELSE {[name |-> f.name, db |-> LoadDoc(f.content)] : f \in LatestCandidates(dir)}

\* cap on the number of insights of a drawn ledger
MaxInsights == 3

\* the last instant of the clock of a drawn ledger
MaxTick == 3

\* datetime.isoformat() with "+00:00" replaced by "Z", line 125.  Instant t
\* of the clock lies in second t \div 2; its microsecond is 0 when t is even
\* and 500000 when t is odd, and isoformat() leaves the fraction out when
\* the microsecond is 0
IsoFormat(t) ==
  <<FormatInt(t \div 2)>> \o (IF t % 2 = 0 THEN <<>> ELSE <<".", "5">>) \o <<"Z">>

\* the code point order of the characters of a timestamp: "." before the
\* digits, the digits before "Z"
CharRank(c) == IF c = "." THEN 0 ELSE IF c = "Z" THEN 11 ELSE ParseInt(c) + 1

\* a < b for two str values
RECURSIVE StrLess(_, _)
StrLess(a, b) ==
  IF b = <<>> THEN FALSE
  ELSE IF a = <<>> THEN TRUE
  ELSE IF a[1] # b[1] THEN CharRank(a[1]) < CharRank(b[1])
  ELSE StrLess(Tail(a), Tail(b))

\* _is_expired, lines 94-95
IsExpired(timestamp, now, ttl) == now - timestamp > ttl

NoInsight ==
  [found |-> FALSE, insight |-> [key |-> "", value |-> "", timestamp |-> 0]]

\* get_latest_insight, lines 136-151: the insights of the key sorted by
\* their timestamp strings, greatest first (the sort is stable, so of two
\* equal strings the one appended first comes first); the first one of them
\* that is not skipped as expired
GetLatestInsight(li, key, ignore_expired, now, ttl) ==
  LET relevant == {i \in 1..Len(li) : li[i].key = key}
      kept     == {i \in relevant :
                     ~(ignore_expired /\ IsExpired(li[i].timestamp, now, ttl))}
      first(i) == \A j \in kept :
                    /\ ~StrLess(IsoFormat(li[i].timestamp), IsoFormat(li[j].timestamp))
                    /\ IsoFormat(li[j].timestamp) = IsoFormat(li[i].timestamp) => i <= j
  IN IF kept = {} THEN NoInsight
     ELSE [found |-> TRUE, insight |-> li[CHOOSE i \in kept : first(i)]]

NoLookup == [called |-> FALSE, key |-> "", ignore_expired |-> TRUE, result |-> NoInsight]

KmInstances == {"writer", "fresh"}

NoKmCall == [op |-> "none", inst |-> ""]

VARIABLES
  km_db,      \* per instance: self.db
  km_alive,   \* the instances constructed so far
  km_latest,  \* what _find_latest_db returned last (<<>>: None)
  km_clock,   \* datetime.now() in ticks
  km_ops,     \* number of KnowledgeManager calls made
  km_last,    \* the last call: its kind and its instance
  km_save,    \* what save_with_metadata returned in the last call
  km_ttl,     \* self.ttl in ticks
  km_found    \* the last get_latest_insight call and what it returned

kmVars ==
  <<km_db, km_alive, km_latest, km_clock, km_ops, km_last, km_save, km_ttl,
    km_found>>

KMInit ==
  /\ km_db = [i \in KmInstances |-> EmptyLedger]
  /\ km_alive = {}
  /\ km_latest = <<>>
  /\ km_clock = 0
  /\ km_ops = 0
  /\ km_last = NoKmCall
  /\ km_save = NoSave
  /\ km_ttl = 1
  /\ km_found = NoLookup

\* KnowledgeManager.__init__: load the latest version, save the initial
\* structure when the ledger loaded is empty
KmConstruct(inst) ==
  /\ km_ops < MaxKmOps
  /\ km_ops' = km_ops + 1
  /\ km_alive' = km_alive \cup {inst}
  /\ km_last' = [op |-> "construct", inst |-> inst]
  /\ \E l \in LoadDb(ver_dir) :
       /\ km_latest' = l.name
       /\ km_db' = [km_db EXCEPT ![inst] = l.db]
       /\ IF LedgerIsEmpty(l.db)
          THEN \E meta_ok \in BOOLEAN :
                 /\ ver_dir' = SaveWithMetadata(ver_dir, l.db, meta_ok)
                 /\ km_save' = SaveResult(ver_dir, l.db, meta_ok)
          ELSE ver_dir' = ver_dir /\ km_save' = NoSave
  /\ UNCHANGED <<writers, tmp_file, tmp_orphans, wpc, wcall, nsaves, results, km_clock,
                 km_ttl, km_found>>

\* add_insight(key, value, ...): append the insight, save the ledger
AddInsight(inst) ==
  /\ inst \in km_alive /\ km_ops < MaxKmOps
  /\ km_ops' = km_ops + 1
  /\ km_last' = [op |-> "add", inst |-> inst]
  /\ \E key \in InsightKeys, value \in InsightValues, tick \in 0..1,
        meta_ok \in BOOLEAN :
       LET db1 == [km_db[inst] EXCEPT !.learned_insights =
                     Append(@, [key |-> key, value |-> value,
                                timestamp |-> km_clock + tick])]
       IN /\ km_clock' = km_clock + tick
          /\ km_db' = [km_db EXCEPT ![inst] = db1]
          /\ ver_dir' = SaveWithMetadata(ver_dir, db1, meta_ok)
          /\ km_save' = SaveResult(ver_dir, db1, meta_ok)
  /\ UNCHANGED <<writers, tmp_file, tmp_orphans, wpc, wcall, nsaves, results,
                 km_alive, km_latest, km_ttl, km_found>>

\* set_session_state(key, value): set the key, save the ledger
SetSessionState(inst) ==
  /\ inst \in km_alive /\ km_ops < MaxKmOps
  /\ km_ops' = km_ops + 1
  /\ km_last' = [op |-> "set", inst |-> inst]
  /\ \E key \in KmStateKeys, value \in KmStateValues, meta_ok \in BOOLEAN :
       LET db1 == [km_db[inst] EXCEPT !.session_state[key] = value]
       IN /\ km_db' = [km_db EXCEPT ![inst] = db1]
          /\ ver_dir' = SaveWithMetadata(ver_dir, db1, meta_ok)
          /\ km_save' = SaveResult(ver_dir, db1, meta_ok)
  /\ UNCHANGED <<writers, tmp_file, tmp_orphans, wpc, wcall, nsaves, results,
                 km_alive, km_latest, km_clock, km_ttl, km_found>>


\* get_latest_insight(key, ignore_expired) on an instance
GetLatestInsightCall(inst) ==
  /\ inst \in km_alive /\ ~km_found.called
  /\ \E key \in InsightKeys, ignore_expired \in BOOLEAN :
       km_found' =
         [called |-> TRUE, key |-> key, ignore_expired |-> ignore_expired,
          result |-> GetLatestInsight(km_db[inst].learned_insights, key,
                                      ignore_expired, km_clock, km_ttl)]
  /\ UNCHANGED <<vcVars, km_db, km_alive, km_latest, km_clock, km_ops, km_last,
                 km_save, km_ttl>>

\* the values of ttl_days (the tests construct with ttl_days=-1)
TtlValues == {-1, 0, 1, 2}

\* the ledgers that add_insight calls build: their timestamps in the order
\* the clock gave them
InsightLists ==
  UNION {{li \in [1..n -> [key : InsightKeys, value : InsightValues,
                           timestamp : 0..MaxTick]] :
            \A i \in 1..n, j \in 1..n : i < j => li[i].timestamp <= li[j].timestamp}
         : n \in 0..MaxInsights}

\* an instance that holds a drawn ledger, at a drawn instant of the clock
KMInitDrawn ==
  /\ \E li \in InsightLists :
       /\ km_db = [i \in KmInstances |->
                     IF i = "writer" THEN [EmptyLedger EXCEPT !.learned_insights = li]
                     ELSE EmptyLedger]
       /\ km_clock \in 0..(MaxTick + 1)
       /\ \A i \in 1..Len(li) : li[i].timestamp <= km_clock
  /\ km_ttl \in TtlValues
  /\ km_alive = {"writer"}
  /\ km_latest = <<>>
  /\ km_ops = 0
  /\ km_last = NoKmCall
  /\ km_save = NoSave
  /\ km_found = NoLookup


vars == <<vcVars, reVars, orchVars, engVars, pmVars, sgVars, kmVars>>

\* the components that a specification does not exercise, in their state
\* after construction
RestIdle == PMInitIdle /\ SGInitIdle /\ KMInit

Init == VCInit({"w1"}) /\ REInitIdle /\ OrchInit /\ EngInitIdle /\ RestIdle

NextVC ==
  \/ \E w \in AllWriters : SaveTypeError(w) /\ UNCHANGED <<reVars, orchVars, engVars, pmVars, sgVars, kmVars>>
  \/ \E w \in AllWriters : SaveBegin(w) /\ UNCHANGED <<reVars, orchVars, engVars, pmVars, sgVars, kmVars>>
  \/ \E w \in AllWriters : WriteChunk(w) /\ UNCHANGED <<reVars, orchVars, engVars, pmVars, sgVars, kmVars>>
  \/ \E w \in AllWriters : MoveAndReturn(w) /\ UNCHANGED <<reVars, orchVars, engVars, pmVars, sgVars, kmVars>>
  \/ \E w \in AllWriters : SaveIOError(w) /\ UNCHANGED <<reVars, orchVars, engVars, pmVars, sgVars, kmVars>>
  \/ \E w \in AllWriters : Crash(w) /\ UNCHANGED <<reVars, orchVars, engVars, pmVars, sgVars, kmVars>>

\* single writer
SpecVC == Init /\ [][NextVC]_vars

InitRule == VCInit({"w1"}) /\ REInitDrawn /\ OrchInit /\ EngInitIdle /\ RestIdle

NextRule ==
  \/ EvaluateCall /\ UNCHANGED <<vcVars, orchVars, engVars, pmVars, sgVars, kmVars>>
  \/ EvaluateUnknown /\ UNCHANGED <<vcVars, orchVars, engVars, pmVars, sgVars, kmVars>>

\* evaluate applied to every ruleset and every facts of the bounded sets
SpecRule == InitRule /\ [][NextRule]_vars

NextOrch ==
  \/ TimePasses /\ UNCHANGED <<vcVars, reVars, engVars, pmVars, sgVars, kmVars>>
  \/ \E t \in Threads : RunRejected(t) /\ UNCHANGED <<vcVars, reVars, engVars, pmVars, sgVars, kmVars>>
  \/ \E t \in Threads : RunCheckPassed(t) /\ UNCHANGED <<vcVars, reVars, engVars, pmVars, sgVars, kmVars>>
  \/ \E t \in Threads : RunSetWorking(t) /\ UNCHANGED <<vcVars, reVars, engVars, pmVars, sgVars, kmVars>>
  \/ \E t \in Threads : RunLoadConfig(t) /\ UNCHANGED <<vcVars, reVars, engVars, pmVars, sgVars, kmVars>>
  \/ \E t \in Threads : StepBegin(t) /\ UNCHANGED <<vcVars, reVars, engVars, pmVars, sgVars, kmVars>>
  \/ \E t \in Threads : StepExec(t) /\ UNCHANGED <<vcVars, reVars, engVars, pmVars, sgVars, kmVars>>

\* one orchestrator instance, run() called from two threads
SpecOrch == Init /\ [][NextOrch]_vars

InitEngine == VCInit({"w1"}) /\ REInitIdle /\ OrchInit /\ EngInitDrawn /\ RestIdle

NextEngine ==
  \/ CopyCsv /\ UNCHANGED <<vcVars, reVars, orchVars, pmVars, sgVars, kmVars>>
  \/ EngStart /\ UNCHANGED <<vcVars, reVars, orchVars, pmVars, sgVars, kmVars>>
  \/ EngStep /\ UNCHANGED <<vcVars, reVars, orchVars, pmVars, sgVars, kmVars>>
  \/ EngLoopEnd /\ UNCHANGED <<vcVars, reVars, orchVars, pmVars, sgVars, kmVars>>

\* the step engine over every assignment of error policies to the steps
SpecEngine == InitEngine /\ [][NextEngine]_vars

InitProfile ==
  /\ VCInit({"w1"}) /\ REInitIdle /\ OrchInit /\ EngInitIdle
  /\ stop_on_error /\ stop_on_contract
  /\ PMInitDrawn /\ SGInitIdle /\ KMInit

NextProfile ==
  GetMergedProfileCall /\ UNCHANGED <<vcVars, reVars, orchVars, engVars, sgVars, kmVars>>

\* get_merged_profile applied to every store of two profiles of the bounded
\* set and every name
SpecProfile == InitProfile /\ [][NextProfile]_vars

InitGuard ==
  /\ VCInit({"w1"}) /\ REInitIdle /\ OrchInit /\ EngInitGuard
  /\ stop_on_error /\ stop_on_contract
  /\ PMInitIdle /\ SGInitIdle /\ KMInit

NextGuard ==
  DurumYonetimiYaz /\ UNCHANGED <<vcVars, reVars, orchVars, pmVars, kmVars>>

\* one write of the run state over every file, payload and guard object of
\* the bounded sets
SpecGuard == InitGuard /\ [][NextGuard]_vars

InitKM ==
  /\ VCInit({"w1"}) /\ REInitIdle /\ OrchInit /\ EngInitIdle
  /\ stop_on_error /\ stop_on_contract
  /\ PMInitIdle /\ SGInitIdle /\ KMInit

NextKM ==
  \/ \E i \in KmInstances : KmConstruct(i) /\ UNCHANGED <<reVars, orchVars, engVars, pmVars, sgVars>>
  \/ AddInsight("writer") /\ UNCHANGED <<reVars, orchVars, engVars, pmVars, sgVars>>
  \/ SetSessionState("writer") /\ UNCHANGED <<reVars, orchVars, engVars, pmVars, sgVars>>

\* one instance that writes the ledger, and instances constructed over the
\* same version store at any time
SpecKM == InitKM /\ [][NextKM]_vars

InitInsight ==
  /\ VCInit({"w1"}) /\ REInitIdle /\ OrchInit /\ EngInitIdle
  /\ stop_on_error /\ stop_on_contract
  /\ PMInitIdle /\ SGInitIdle /\ KMInitDrawn

NextInsight ==
  GetLatestInsightCall("writer") /\ UNCHANGED <<reVars, orchVars, engVars, pmVars, sgVars>>

\* get_latest_insight applied to every ledger of the bounded set, at every
\* instant and under every TTL
SpecInsight == InitInsight /\ [][NextInsight]_vars

InitVC2 ==
  /\ VCInit({"w1", "w2"}) /\ REInitIdle /\ OrchInit /\ EngInitIdle
  /\ stop_on_error /\ stop_on_contract
  /\ RestIdle

\* two writers that call save_new_version on the same directory
SpecVC2 == InitVC2 /\ [][NextVC]_vars

InitEngineLive ==
  /\ VCInit({"w1"}) /\ REInitIdle /\ OrchInit /\ EngInitDrawn
  /\ stop_on_error /\ stop_on_contract
  /\ RestIdle

\* the steps of the engine inside the whole state: nothing else changes
LiveCopyCsv == CopyCsv /\ UNCHANGED <<vcVars, reVars, orchVars, pmVars, sgVars, kmVars>>

LiveStart == EngStart /\ UNCHANGED <<vcVars, reVars, orchVars, pmVars, sgVars, kmVars>>

LiveStep == EngStepLive /\ UNCHANGED <<vcVars, reVars, orchVars, pmVars, sgVars, kmVars>>

LiveLoopEnd == EngLoopEnd /\ UNCHANGED <<vcVars, reVars, orchVars, pmVars, sgVars, kmVars>>

NextEngineLive ==
  \/ LiveCopyCsv
  \/ LiveStart
  \/ LiveStep
  \/ LiveLoopEnd

\* the step engine with no cap on its iterations.  Every handler invocation
\* returns or raises and the file the engine waits for is copied in the end:
\* whatever the engine can do next, it does
SpecEngineLive ==
  /\ InitEngineLive /\ [][NextEngineLive]_vars
  /\ WF_vars(LiveCopyCsv) /\ WF_vars(LiveStart) /\ WF_vars(LiveStep)
  /\ WF_vars(LiveLoopEnd)

InitResume ==
  /\ VCInit({"w1"}) /\ REInitIdle /\ OrchInit /\ EngInitResume
  /\ stop_on_error /\ stop_on_contract
  /\ RestIdle

\* one run of the engine over every run-state file of the bounded set
SpecResume == InitResume /\ [][NextEngine]_vars

\* ------------------------------------------------------------------------
\* Properties of VersionControl
\* ------------------------------------------------------------------------

\* every call returned so far was made for one and the same base path
SameBasePath ==
  \A i, j \in 1..Len(results) :
     results[i].base = results[j].base /\ results[i].ext = results[j].ext

VersionsInOrder ==
  SameBasePath => \A k \in 1..Len(results) : results[k].version = k

OneNewFileAndNoRewrite ==
  /\ \A f \in ver_dir : f \in ver_dir'
  /\ results' # results => Cardinality(ver_dir') = Cardinality(ver_dir) + 1

\* C1: with a single writer, N consecutive save_new_version calls for one
\* base path return the versions 1, 2, ..., N in order, also for
\* byte-identical payloads; each call adds exactly one new artifact file and
\* no file written by an earlier call is deleted or changed by a later call.
C1_MonotonicVersions ==
  [](VersionsInOrder) /\ [][OneNewFileAndNoRewrite]_vars

\* three calls for one base path, the first two with byte-identical payloads
C1_Witness ==
  /\ Len(results) = 3 /\ SameBasePath
  /\ results[1].sha256 = results[2].sha256
  /\ Cardinality(ver_dir) = 3

\* C2: whatever the point between the start of the temp write and the rename
\* at which the writer crashes, the final artifact path either does not exist
\* or holds the complete serialized payload, and the file of every earlier
\* version is intact.
C2_AtomicFinalPath ==
  /\ \A f \in ver_dir :
       \E k \in 1..Len(results) :
          results[k].filepath = f.name /\ results[k].bytes = f.content
  /\ \A k \in 1..Len(results) :
       [name |-> results[k].filepath, content |-> results[k].bytes] \in ver_dir
  /\ \A w \in writers :
       wpc[w] = "write" =>
         \A f \in ver_dir : f.name = wcall[w].final => f.content = wcall[w].bytes

\* a writer crashed in the middle of its temp write (a partial temp file is
\* left behind) and a version has been saved
C2_Witness ==
  /\ results # <<>>
  /\ \E c \in tmp_orphans :
       \E d \in DataValues :
          Supported(d) /\ IsPrefix(c, Serialize(d)) /\ c # <<>> /\ c # Serialize(d)

\* ------------------------------------------------------------------------
\* Properties of WorkflowOrchestrator.run
\* ------------------------------------------------------------------------

\* C3: when run() is called twice concurrently on one orchestrator, exactly
\* one call executes the workflow, the other returns at once as busy, and the
\* flag goes from WORKING to IDLE exactly once.
C3_SingleFlight ==
  (InFlight = {} /\ episode.calls = 2)
  => (episode.entered = 1 /\ episode.rejected = 1 /\ episode.resets = 1)

InBody(pc) == pc \in {"config", "step", "exec"}

FlagRestoredOnExit ==
  \A t \in Threads : InBody(tpc[t]) /\ tpc'[t] = "idle" => state' = "IDLE"

RejectedCallChangesNothing ==
  (nruns' # nruns /\ state = "WORKING")
  => (UNCHANGED <<state, context, update_counter>> /\ tpc' = tpc)

\* C4: a run() call that set the flag to WORKING sets it back to IDLE when it
\* returns or raises, on every exit path; a run() call that observes WORKING
\* returns without a change of the flag, the context or the update counter.
C4_FlagRestored ==
  [][FlagRestoredOnExit /\ RejectedCallChangesNothing]_vars

\* a call has left run() by an unexpected exception and the flag is IDLE
C4_Witness == last_exit = "exception" /\ state = "IDLE"

\* thread t is at a step that its ruleset gates out: the session is within
\* its limits and evaluate returns false for the ruleset the step names
AtGatedOutStep(t) ==
  /\ tpc[t] = "step" /\ tidx[t] <= Len(tcfg[t].steps)
  /\ CheckStatus(elapsed_over, update_counter) = "STATUS_OK"
  /\ tcfg[t].steps[tidx[t]].ruleset # ""
  /\ Evaluate(OrchRulesets, tcfg[t].steps[tidx[t]].ruleset, context) = "false"

GatedOutStepIsSkipped ==
  \A t \in Threads :
     (AtGatedOutStep(t) /\ <<tpc[t], tidx[t]>> # <<tpc'[t], tidx'[t]>>)
     => /\ tpc'[t] = "step" /\ tidx'[t] = tidx[t] + 1
        /\ UNCHANGED <<context, update_counter, loaded, invoked>>

\* C9: a step whose ruleset evaluates to false, also one that names a ruleset
\* the RuleEngine does not know, is skipped: its handler is neither loaded nor
\* invoked, the context and the update counter are unchanged by it, and the
\* run goes on with the next step.
C9_GatedStepSkipped ==
  /\ []("ghost" \notin loaded \cup invoked)
  /\ [][GatedOutStepIsSkipped]_vars

\* the step with the unknown ruleset was passed over and the step after it ran
C9_Witness ==
  /\ "plain" \in invoked /\ "ghost" \notin loaded
  /\ \E t \in Threads : tpc[t] = "step" /\ tidx[t] = 3 /\ tcfg[t].steps[1].id = "ghost"

\* ------------------------------------------------------------------------
\* Properties of is_akisi_motoru
\* ------------------------------------------------------------------------

\* this transition is a loop iteration
Iteration == eng_iter' = eng_iter + 1

\* this transition is a loop iteration in which the step failed
FailedIteration == Iteration /\ eng_last'.outcome \in {"fault", "invalid"}

\* C5 as stated: after a handler fault of a step with
\* on_error = {fallback_next: stepX}, stepX declared, the next step executed
\* is stepX, and no step between the two is executed before it.
C5_NextExecutedIsFallback ==
  [][(Iteration /\ eng_pending # "" /\ eng_last'.outcome # "skipped")
       => eng_last'.step = eng_pending]_vars

FallbackMovesPointer ==
  (Iteration /\ eng_last'.outcome = "fault" /\ on_error[eng_last'.step].fb \in EngIds)
  => /\ eng_pc' = "loop"
     /\ eng_i' \in 1..Len(EngSteps)
     /\ EngSteps[eng_i'] = on_error[eng_last'.step].fb

FallbackTargetTakenUpNext ==
  (Iteration /\ eng_last.outcome = "fault" /\ on_error[eng_last.step].fb \in EngIds)
  => /\ eng_last'.step = on_error[eng_last.step].fb
     /\ eng_last'.outcome = "skipped"
          <=> ~OnKosullariKontrolEt(on_error[eng_last.step].fb, uretim_verileri)

\* C5 (amended): after a handler fault of a step with
\* on_error = {fallback_next: stepX}, stepX declared, the engine resumes at
\* stepX: the next step it takes up is stepX, no other step is taken up before
\* it, and the handler of stepX runs unless the precondition of stepX is unmet.
C5_ResumesAtFallback ==
  [][FallbackMovesPointer /\ FallbackTargetTakenUpNext]_vars

\* step "3" failed with fallback_next "12": the loop is at "12", "10" was not
\* taken up
C5_Witness ==
  /\ eng_pc = "loop" /\ eng_i = 3
  /\ eng_last = [step |-> "3", outcome |-> "fault"]
  /\ on_error["3"].fb = "12"

\* C6: when a step fails under fail-soft (handler fault or output that fails
\* validation), the engine goes on with the next step in declared order and
\* the production data is exactly what it was before the step started.
C6_FailSoftLeavesData ==
  [][(FailedIteration /\ on_error[eng_last'.step].pol = "fail-soft")
       => /\ eng_pc' = "loop" /\ eng_i' = eng_i + 1
          /\ uretim_verileri' = uretim_verileri
          /\ uretim_verileri["maliyet_raporu"] # 0 => maliyet_raporu' = maliyet_raporu]_vars

\* C7: on a step failure the step's own on_error decides when the step
\* declares one, whatever the global flag; when it declares none the global
\* stop-on-error flag decides: true halts the run, false continues with the
\* next step in declared order.
C7_PolicyResolution ==
  [][FailedIteration =>
       LET oe == on_error[eng_last'.step]
       IN /\ oe.pol = "fail-soft" => (eng_pc' = "loop" /\ eng_i' = eng_i + 1)
          /\ oe.pol = "stop" => eng_pc' = "done"
          /\ oe.fb \in EngIds => (eng_pc' = "loop" /\ eng_i' = EngIndex(oe.fb))
          /\ (oe.fb # "" /\ oe.fb \notin EngIds) => eng_pc' = "done"
          /\ (oe.pol = "" /\ oe.fb = "")
               => IF stop_err THEN eng_pc' = "done"
                  ELSE (eng_pc' = "loop" /\ eng_i' = eng_i + 1)]_vars

FactMissing(c, facts) == c.fact \notin DOMAIN facts \/ facts[c.fact] = Absent

\* the fact is there, with a value of another type than the expected value,
\* or of a type on which the operator is not defined
TypeIncompatible(c, facts) ==
  /\ ~FactMissing(c, facts)
  /\ \/ facts[c.fact].t # c.value.t
     \/ c.operator \in {"greaterThan", "lessThan"} /\ ~Orderable(facts[c.fact], c.value)

\* C10: evaluate returns false (and does not raise) whenever a condition of
\* the ruleset names a fact that is absent from the facts or whose value is
\* type-incompatible with the expected value, for every operator of
\* {equal, greaterThan, lessThan} and every expected value, null included.
C10_MissingOrIncompatibleIsFalse ==
  (/\ re_result # "unset"
   /\ \E k \in 1..Len(re_conds) :
        /\ re_conds[k].operator \in Operators
        /\ FactMissing(re_conds[k], re_facts) \/ TypeIncompatible(re_conds[k], re_facts))
  => re_result = "false"

\* ------------------------------------------------------------------------
\* Properties of ProfileManager
\* ------------------------------------------------------------------------

\* the profile asked for is stored and inherits from another stored profile,
\* which itself inherits from nothing
InheritsFromBase ==
  /\ pm_name \in DOMAIN pm_profiles
  /\ pm_profiles[pm_name]["inherits"] \in DOMAIN pm_profiles
  /\ pm_profiles[pm_name]["inherits"] # pm_name
  /\ pm_profiles[pm_profiles[pm_name]["inherits"]]["inherits"] = Missing

\* the fields of the base profile overlaid by the own fields of the child
Overlay(base_profile, profile) ==
  [k \in ProfKeys |->
     IF k = "inherits" THEN Missing
     ELSE IF profile[k] # Missing THEN profile[k] ELSE base_profile[k]]

\* C11: get_merged_profile(child) returns exactly the fields of the base
\* profile overlaid by the child's own fields, the child winning on shared
\* keys, with no other key in the result ({a:1,b:2} and
\* {inherits:"base", b:3} give {a:1,b:3}).
C11_MergedProfile ==
  (pm_result.called /\ InheritsFromBase)
  => /\ pm_result.value.found
     /\ pm_result.value.fields =
          Overlay(pm_profiles[pm_profiles[pm_name]["inherits"]], pm_profiles[pm_name])

\* ------------------------------------------------------------------------
\* Properties of durum_yonetimi
\* ------------------------------------------------------------------------

\* this transition is a call of durum_yonetimi(mod='yaz')
YazCall == yaz_result = "none" /\ yaz_result' # "none"

\* the policy says in so many words what to do with a shrink, and it is not
\* to block
PolicyPermitsShrink(guard) ==
  guard.on_violation \notin {"", "block_and_request_approval"}

\* the shrink the guard is there for: a file is there and the new size is
\* smaller by more than threshold_bytes or by more than threshold_percent of
\* the old size
ShrinksBeyondThresholds ==
  /\ guard_rules.enabled /\ run_state.exists
  /\ OverThreshold(guard_rules, RunStateSize(run_state.data, run_state.cost),
                   RunStateSize(uretim_verileri, maliyet_raporu))

\* C12: a run-state write is rejected and the existing file stays unchanged
\* whenever the new serialized size is smaller than the existing file by more
\* than threshold_bytes or by more than threshold_percent of the old size,
\* unless the policy explicitly permits the shrink; a write that grows the
\* file or shrinks it by no more than both thresholds succeeds and replaces
\* the content.
C12_ShrinkGuard ==
  [][YazCall =>
       IF ShrinksBeyondThresholds /\ ~PolicyPermitsShrink(guard_rules)
       THEN yaz_result' = "false" /\ run_state' = run_state
       ELSE /\ yaz_result' = "true"
            /\ run_state' = [exists |-> TRUE, form |-> "object", last |-> "12",
                             data |-> uretim_verileri, cost |-> maliyet_raporu]]_vars

\* this transition is a loop iteration whose step completed and whose write
\* of the run state the shrink guard refused
WriteRejected ==
  /\ Iteration /\ eng_last'.outcome = "ok"
  /\ ShrinkGuardBlocks(guard_rules, run_state,
                       RunStateSize(uretim_verileri', maliyet_raporu'))

\* C13: when the shrink guard rejects the run-state write made after a step,
\* the run stops cleanly: no later step is executed in that run, the
\* run-state file keeps the last successfully written state, and no exception
\* reaches the caller.
C13_RejectedWriteStopsRun ==
  [][WriteRejected => (eng_pc' = "done" /\ run_state' = run_state)]_vars

\* ------------------------------------------------------------------------
\* Further properties of WorkflowOrchestrator.run
\* ------------------------------------------------------------------------

\* thread t is about to begin a step of its config
AtStepStart(t) == tpc[t] = "step" /\ tidx[t] <= Len(tcfg[t].steps)

\* the session is over its timeout or over its update limit, which is when
\* check_status answers TIMEOUT_REACHED or MAX_UPDATES_REACHED
SessionNotOk == elapsed_over \/ update_counter > MaxUpdates

SessionHaltsRun ==
  \A t \in Threads :
     (AtStepStart(t) /\ SessionNotOk /\ <<tpc[t], tidx[t]>> # <<tpc'[t], tidx'[t]>>)
     => /\ tpc'[t] = "idle" /\ last_exit' = "session" /\ state' = "IDLE"
        /\ UNCHANGED <<context, update_counter, loaded, invoked, completed>>

\* C14: if check_status returns a non-OK status before a step, that step and
\* every later step of the run are not executed (no handler invocation, no
\* context change, no counter change), run() returns without raising, and the
\* flag is IDLE afterwards.
C14_SessionHaltsRun == [][SessionHaltsRun]_vars

\* a run was halted by the update limit after steps had completed
C14_Witness ==
  /\ last_exit = "session" /\ state = "IDLE"
  /\ ~elapsed_over /\ update_counter > MaxUpdates

EmptyContext == [k \in CtxKeys |-> Absent]

\* C15: the context is empty at the start of every accepted run(): no key
\* written by an earlier run() on the same instance is visible to a later run.
C15_ContextEmptyAtRunStart ==
  [][\A t \in Threads :
       (tpc[t] = "set" /\ tpc'[t] = "config" /\ InFlight = {t})
       => context' = EmptyContext]_vars

\* C16: what a handler receives as context is a snapshot: the context changes
\* only through the orchestrator's own merge under output.context_key after
\* a step has passed contract validation.
C16_HandlerGetsSnapshot ==
  [][context' # context =>
       \E t \in Threads :
          /\ tpc[t] = "exec" /\ completed' = completed + 1
          /\ \A k \in CtxKeys :
               k # tcfg[t].steps[tidx[t]].context_key => context'[k] = context[k]]_vars

\* the config names a ruleset or a contract that is not defined
ReferencesUnknown(cfg) ==
  \E k \in 1..Len(cfg.steps) :
     \/ cfg.steps[k].ruleset \notin ({""} \cup DOMAIN OrchRulesets)
     \/ cfg.steps[k].contract \notin ({""} \cup OrchContracts)

\* C17: a workflow config that references an unknown ruleset, profile or
\* contract name is reported as a configuration error at setup: no step's
\* handler is invoked in that run.
C17_UnknownNameStopsAtSetup ==
  [][\A t \in Threads :
       (tpc[t] = "exec" /\ tpc'[t] # "exec") => ~ReferencesUnknown(tcfg[t])]_vars

CounterStepsWithCompletion ==
  update_counter' # update_counter
  => /\ update_counter' = update_counter + 1
     /\ completed' = completed + 1
     /\ \E t \in Threads :
          tpc[t] = "exec" /\ tpc'[t] = "step" /\ tidx'[t] = tidx[t] + 1

KmArtifacts(dir) == {f \in LatestMatches(dir) : ~IsSidecar(f.name)}

\* this transition is the construction of a KnowledgeManager
KmConstructed == km_ops' = km_ops + 1 /\ km_last'.op = "construct"

\* this transition is an add_insight or a set_session_state call
KmMutated == km_ops' = km_ops + 1 /\ km_last'.op \in {"add", "set"}

LookupReturnsLatestArtifact ==
  KmConstructed =>
    IF KmArtifacts(ver_dir) = {} THEN km_latest' = <<>>
    ELSE \E f \in KmArtifacts(ver_dir) :
           /\ km_latest' = f.name
           /\ \A g \in KmArtifacts(ver_dir) :
                RegexVersion(g.name, KmBase, KmExt) <= RegexVersion(f.name, KmBase, KmExt)

\* C19: the latest-version lookup for a base path returns the artifact file
\* with the highest version number and never a metadata sidecar (.meta.json)
\* file, for every order in which the directory listing enumerates the files;
\* it returns none when no artifact of that base path exists.
C19_LatestIsNeverSidecar ==
  /\ [](~IsSidecar(km_latest))
  /\ [][LookupReturnsLatestArtifact]_vars

EachCallPersistsLedger ==
  KmMutated =>
    \E f \in KmArtifacts(ver_dir') \ ver_dir :
       /\ KmArtifacts(ver_dir') \ ver_dir = {f}
       /\ \A g \in ver_dir : g \in ver_dir'
       /\ Ledger(LoadDoc(f.content)) = Ledger(km_db'[km_last'.inst])

FreshInstanceLoadsWriterLedger ==
  (KmConstructed /\ km_last'.inst = "fresh" /\ "writer" \in km_alive)
  => Ledger(km_db'["fresh"]) = Ledger(km_db["writer"])

\* C20: after any sequence of add_insight and set_session_state calls on a
\* KnowledgeManager, each call has persisted the entire ledger as one new
\* artifact version, and a KnowledgeManager freshly constructed over the same
\* version store loads a ledger equal to the writer's in-memory ledger.
C20_ReloadEqualsWriter ==
  [][EachCallPersistsLedger /\ FreshInstanceLoadsWriterLedger]_vars

SidecarWriteFailed ==
  km_ops' = km_ops + 1 /\ km_save'.called /\ ~km_save'.meta_ok

\* C24: in save_with_metadata, a failure while writing the metadata sidecar
\* does not fail the call and does not remove or alter the primary artifact:
\* the call still returns the primary artifact's {filepath, version, sha256}
\* and the artifact file remains at that path with its full content.
C24_SidecarFailureKeepsArtifact ==
  [][SidecarWriteFailed =>
       /\ km_save'.version = MaxVersion(KmArtifacts(ver_dir), KmBase, KmExt) + 1
       /\ km_save'.filepath = KmFinalName(km_save'.version)
       /\ km_save'.bytes = JsonDumpDb(km_db'[km_last'.inst])
       /\ \E f \in ver_dir' :
            f.name = km_save'.filepath /\ f.content = km_save'.bytes
       /\ \A g \in ver_dir : g \in ver_dir']_vars

\* add_insight wrote version 2 and the write of its sidecar failed
C24_Witness ==
  /\ km_last.op = "add" /\ km_save.called /\ ~km_save.meta_ok
  /\ km_save.version = 2
  /\ \E f \in ver_dir : f.name = KmFinalName(2)
  /\ \A f \in ver_dir : f.name # MetaName(KmFinalName(2))


\* the insights of the ledger that the lookup may return: those of the key
\* and, when expired ones are ignored, of an age within the TTL
Eligible ==
  LET li == km_db["writer"].learned_insights
  IN {i \in 1..Len(li) :
        /\ li[i].key = km_found.key
        /\ km_found.ignore_expired => km_clock - li[i].timestamp <= km_ttl}

\* C22: get_latest_insight(key) returns, among the ledger records with that
\* key, the one with the latest timestamp whose age does not exceed the TTL,
\* and none when every matching record is expired or no record matches; with
\* expired records included (ignore_expired=False) it returns the matching
\* record with the latest timestamp regardless of age.
C22_LatestUnexpiredInsight ==
  km_found.called =>
    LET li == km_db["writer"].learned_insights
    IN IF Eligible = {} THEN ~km_found.result.found
       ELSE /\ km_found.result.found
            /\ \E i \in Eligible :
                 /\ km_found.result.insight = li[i]
                 /\ \A j \in Eligible : li[j].timestamp <= li[i].timestamp

\* the learned_insights list of a persisted ledger version
PersistedInsights(f) == ParseInsights(f.content)

\* a occurs in b, unchanged and in order
RECURSIVE IsSubSeq(_, _)
IsSubSeq(a, b) ==
  IF a = <<>> THEN TRUE
  ELSE IF b = <<>> THEN FALSE
  ELSE IF a[1] = b[1] THEN IsSubSeq(Tail(a), Tail(b))
  ELSE IsSubSeq(a, Tail(b))

\* C23: insights are never mutated or deleted: across any sequence of
\* KnowledgeManager constructions, add_insight and set_session_state calls
\* over one version store, the learned_insights list of each persisted ledger
\* version contains, unchanged and in order, every insight of the previous
\* persisted version.
C23_InsightsAppendOnly ==
  [][\A f \in KmArtifacts(ver_dir') \ ver_dir :
       \A g \in KmArtifacts(ver_dir) :
          RegexVersion(g.name, KmBase, KmExt) + 1 = RegexVersion(f.name, KmBase, KmExt)
          => IsSubSeq(PersistedInsights(g), PersistedInsights(f))]_vars

\* C30: constructing a KnowledgeManager over a version store that already
\* holds at least one version of its logical path creates no new artifact
\* version: only add_insight and set_session_state (and the first-ever
\* bootstrap) add versions.
C30_ConstructionAddsNoVersion ==
  [][(KmConstructed /\ KmArtifacts(ver_dir) # {}) => ver_dir' = ver_dir]_vars

\* ------------------------------------------------------------------------
\* Properties of VersionControl under two writers
\* ------------------------------------------------------------------------

\* two calls returned the same version for one base path, with two hashes
SameVersionTwice(i, j) ==
  /\ results[i].base = results[j].base /\ results[i].ext = results[j].ext
  /\ results[i].version = results[j].version
  /\ results[i].sha256 # results[j].sha256

\* a writer that scans the directory while another writer of the same base
\* path has scanned it and not moved its file yet gets the same version
ScanSeesNoUnmovedFile ==
  \A w \in AllWriters, o \in AllWriters :
     (/\ w # o /\ wpc[w] = "idle" /\ wpc'[w] = "write" /\ wpc[o] = "write"
      /\ wcall'[w].base = wcall[o].base /\ wcall'[w].ext = wcall[o].ext
      /\ wcall[o].ver = GetNextVersion(ver_dir, wcall[o].base, wcall[o].ext))
     => wcall'[w].ver = wcall[o].ver

\* C25: two writers that run save_new_version concurrently on the same
\* basePath can both compute the same next version from the directory scan
\* and both succeed, reaching a state with two artifacts that carry the same
\* version number and different content hashes.
C25_ConcurrentWritersShareVersion ==
  /\ [][ScanSeesNoUnmovedFile]_vars
  /\ [](\A i \in 1..Len(results), j \in 1..Len(results) :
          SameVersionTwice(i, j) =>
            /\ [name |-> results[i].filepath, content |-> results[i].bytes] \in ver_dir
            /\ [name |-> results[j].filepath, content |-> results[j].bytes] \in ver_dir)

\* both writers have returned version 1 of base path "d", and the directory
\* holds the two artifacts
C25_Witness ==
  /\ Len(results) = 2 /\ SameVersionTwice(1, 2)
  /\ results[1].base = <<"d">> /\ results[1].version = 1
  /\ wpc["w1"] = "idle" /\ wpc["w2"] = "idle"
  /\ \E f \in ver_dir, g \in ver_dir :
       /\ f.name = results[1].filepath /\ g.name = results[2].filepath
       /\ f.name # g.name /\ f.content # g.content
       /\ RegexVersion(f.name, <<"d">>, <<".json">>) = RegexVersion(g.name, <<"d">>, <<".json">>)

\* this transition is a save_new_version call that returns for base path a
SavedUnder(a) ==
  Len(results') = Len(results) + 1 /\ results'[Len(results')].base = a.name

\* C26: version sequences of distinct base paths are independent: a
\* save_new_version call under base path A never changes the version that
\* the next save under a different base path B (same extension) receives, for
\* every pair of base names including names where one is a prefix of the
\* other.
C26_BasePathsIndependent ==
  [][\A a \in BasePaths, b \in BasePaths :
       (a # b /\ a.ext = b.ext /\ SavedUnder(a))
       => GetNextVersion(ver_dir', b.name, b.ext) = GetNextVersion(ver_dir, b.name, b.ext)]_vars

\* ------------------------------------------------------------------------
\* Properties of the orchestrator's session ceiling
\* ------------------------------------------------------------------------

\* C27: the update-count ceiling holds: over the lifetime of one
\* WorkflowOrchestrator instance (all of its run() calls together, since the
\* counter is not reset per run) the number of steps whose handler completes
\* never exceeds max_updates.
C27_UpdateCeiling == completed <= MaxUpdates

\* ------------------------------------------------------------------------
\* Properties of the step engine: termination and resume
\* ------------------------------------------------------------------------

\* C28: every run of the step engine over a finite step list terminates
\* provided each handler invocation and each file wait returns, for every
\* assignment of per-step on_error policies (stop, fail-soft, fallback_next to
\* any declared step, including the failing step itself or an earlier step)
\* and either value of the global stop-on-error flag.
C28_EveryRunTerminates == (eng_pc = "loop") ~> (eng_pc = "done")

\* this transition is the start of a run of the engine
EngStarted == eng_runs' = eng_runs + 1

\* the file records the id of a step of the current list
RecordsStep == Readable(run_state) /\ run_state.last \in EngIds

\* the file is absent or unreadable, or records an id that is not in the list
NothingToResume ==
  \/ ~run_state.exists
  \/ run_state.form # "object"
  \/ run_state.last # "" /\ run_state.last \notin EngIds

WrittenAfterSuccessOnly ==
  run_state' # run_state =>
    /\ eng_iter' = eng_iter + 1
    /\ eng_last'.outcome = "ok"
    /\ run_state'.last = eng_last'.step

ResumesAfterRecordedStep ==
  (EngStarted /\ RecordsStep) =>
    /\ eng_pc' = "loop"
    /\ eng_i' = EngIndex(run_state.last) + 1
    /\ uretim_verileri' = run_state.data

StartsAfresh ==
  (EngStarted /\ NothingToResume) =>
    /\ eng_pc' = "loop"
    /\ eng_i' = 1
    /\ uretim_verileri' = NoData

\* C29: resume: the run-state file is written only after a step completes
\* successfully, and on start the engine begins at the step immediately after
\* the recorded last_completed_step_id with the saved production data; if the
\* file is absent or unreadable, or the recorded id is not in the current
\* step list, it begins at the first step with empty production data.
C29_Resume ==
  [][WrittenAfterSuccessOnly /\ ResumesAfterRecordedStep /\ StartsAfresh]_vars

====
